---- MODULE Spec2Model ----
(***************************************************************************)
(* Model of SoAPy/analysis.py: the six stateless comparison and reduction  *)
(* routines over spectra.  Each routine is one action that draws its       *)
(* arguments from bounded sets and records the outcome of the call: either *)
(* the returned value or the Python exception that left the function.      *)
(*                                                                         *)
(* Numbers.  numpy float64 values are modelled as exact values with the    *)
(* IEEE special cases the code can produce (signed zero, +-inf, nan):      *)
(*   [cls |-> "fin",  sgn, num, den]  the rational sgn*num/den (lowest     *)
(*                                    terms, den > 0; num = 0 is +-0.0)    *)
(*   [cls |-> "surd", sgn, num, den]  sgn*sqrt(num/den), num/den not a     *)
(*                                    square of a rational                 *)
(*   [cls |-> "inf",  sgn, ...]       +-infinity                           *)
(*   [cls |-> "nan",  ...]            not a number                         *)
(* Rounding, overflow and underflow of float64 are not modelled.           *)
(***************************************************************************)
EXTENDS Integers, Sequences, FiniteSets, TLC

VARIABLES call, args, result

vars == <<call, args, result>>

(***************************************************************************)
(* Bounds of the input space.                                              *)
(***************************************************************************)
\* longest spectrum (number of sampled points) handed to a routine
MaxLen == 3

\* frequency values of the sampled points
FreqVals == {0, 1}

\* intensity values of the sampled points
IntensityVals == {-1, 0, 2}

SeqsOfLen(S, n) == [1..n -> S]

\* frequency axes: increasing, decreasing, repeated and non-monotonic axes
\* all occur
Axes(n) == SeqsOfLen(FreqVals, n)

Intensities(n) == SeqsOfLen(IntensityVals, n)

\* the axes in ascending order, as a list of normal modes is reported
SortedAxes(n) == {x \in Axes(n) : \A i \in 1..(n - 1) : x[i] <= x[i + 1]}

(***************************************************************************)
(* float64 arithmetic                                                      *)
(***************************************************************************)
Abs(i) == IF i < 0 THEN -i ELSE i

RECURSIVE GCD(_, _)
GCD(a, b) == IF b = 0 THEN a ELSE GCD(b, a % b)

NaN == [cls |-> "nan", sgn |-> 1, num |-> 0, den |-> 1]

Inf(s) == [cls |-> "inf", sgn |-> s, num |-> 0, den |-> 1]

\* the float sgn*n/d, n >= 0, d > 0, reduced to lowest terms
Fin(s, n, d) ==
    LET g == GCD(n, d)
    IN  [cls |-> "fin", sgn |-> s, num |-> n \div g, den |-> d \div g]

\* float(i) for a Python or numpy integer i
FromInt(i) == Fin(IF i < 0 THEN -1 ELSE 1, Abs(i), 1)

IsZero(x) == x.cls \in {"fin", "surd"} /\ x.num = 0

\* the signed numerator of a "fin" value over its denominator
SNum(x) == x.sgn * x.num

\* x + y on float64 (no "surd" operand reaches an addition in the code)
Add(x, y) ==
    IF x.cls = "nan" \/ y.cls = "nan" THEN NaN
    ELSE IF x.cls = "inf" /\ y.cls = "inf"
         THEN IF x.sgn = y.sgn THEN x ELSE NaN
    ELSE IF x.cls = "inf" THEN x
    ELSE IF y.cls = "inf" THEN y
    ELSE LET n == SNum(x) * y.den + SNum(y) * x.den
         IN  IF n = 0
             THEN Fin(IF IsZero(x) /\ IsZero(y) /\ x.sgn = -1 /\ y.sgn = -1
                      THEN -1 ELSE 1, 0, 1)
             ELSE Fin(IF n < 0 THEN -1 ELSE 1, Abs(n), x.den * y.den)

Neg(x) == IF x.cls = "nan" THEN NaN ELSE [x EXCEPT !.sgn = -x.sgn]

Sub(x, y) == Add(x, Neg(y))

\* abs(x)
FAbs(x) == IF x.cls = "nan" THEN NaN ELSE [x EXCEPT !.sgn = 1]

\* the largest r with r*r <= n
RECURSIVE ISqrtFrom(_, _)
ISqrtFrom(n, r) == IF (r + 1) * (r + 1) > n THEN r ELSE ISqrtFrom(n, r + 1)

IsSquare(n) == ISqrtFrom(n, 0) * ISqrtFrom(n, 0) = n

\* sgn*sqrt(n/d): a "fin" when n/d is the square of a rational, else a "surd"
Root(s, n, d) ==
    LET g == GCD(n, d)
        nn == n \div g
        dd == d \div g
    IN  IF IsSquare(nn) /\ IsSquare(dd)
        THEN Fin(s, ISqrtFrom(nn, 0), ISqrtFrom(dd, 0))
        ELSE [cls |-> "surd", sgn |-> s, num |-> nn, den |-> dd]

\* the square of the magnitude of a "fin" or "surd" value, as <<n, d>>
SqOf(x) == IF x.cls = "fin" THEN <<x.num * x.num, x.den * x.den>>
           ELSE <<x.num, x.den>>

\* x * y on float64
Mul(x, y) ==
    IF x.cls = "nan" \/ y.cls = "nan" THEN NaN
    ELSE IF x.cls = "inf" \/ y.cls = "inf"
         THEN IF IsZero(x) \/ IsZero(y) THEN NaN ELSE Inf(x.sgn * y.sgn)
    ELSE IF x.cls = "fin" /\ y.cls = "fin"
         THEN Fin(x.sgn * y.sgn, x.num * y.num, x.den * y.den)
    ELSE Root(x.sgn * y.sgn, SqOf(x)[1] * SqOf(y)[1], SqOf(x)[2] * SqOf(y)[2])

\* x / y on numpy float64: a zero divisor gives nan or +-inf (with a
\* RuntimeWarning), never an exception
Div(x, y) ==
    IF x.cls = "nan" \/ y.cls = "nan" THEN NaN
    ELSE IF x.cls = "inf"
         THEN IF y.cls = "inf" THEN NaN ELSE Inf(x.sgn * y.sgn)
    ELSE IF y.cls = "inf" THEN Fin(x.sgn * y.sgn, 0, 1)
    ELSE IF IsZero(y)
         THEN IF IsZero(x) THEN NaN ELSE Inf(x.sgn * y.sgn)
    ELSE IF x.cls = "fin" /\ y.cls = "fin"
         THEN Fin(x.sgn * y.sgn, x.num * y.den, x.den * y.num)
    ELSE Root(x.sgn * y.sgn, SqOf(x)[1] * SqOf(y)[2], SqOf(x)[2] * SqOf(y)[1])

\* np.sqrt(x) of a "fin", "inf" or "nan" value: nan for a negative argument,
\* sqrt(-0.0) = -0.0
np_sqrt(x) ==
    IF x.cls = "nan" THEN NaN
    ELSE IF IsZero(x) THEN x
    ELSE IF x.sgn = -1 THEN NaN
    ELSE IF x.cls = "inf" THEN x
    ELSE Root(1, x.num, x.den)

\* x > 0 and x < 0 as Python compares floats (both FALSE for nan and +-0.0)
Gt0(x) == x.cls # "nan" /\ x.sgn = 1 /\ ~IsZero(x)

Lt0(x) == x.cls # "nan" /\ x.sgn = -1 /\ ~IsZero(x)

\* an ordinary float: neither nan nor +-inf
IsFinite(x) == x.cls \in {"fin", "surd"}

\* |x| <= 1 for a finite x
AbsLeOne(x) == IsFinite(x) /\ SqOf(x)[1] <= SqOf(x)[2]

(***************************************************************************)
(* numpy array helpers                                                     *)
(***************************************************************************)
\* elementwise product of two equal-length integer arrays
ArrMul(u, v) == [i \in 1..Len(u) |-> u[i] * v[i]]

RECURSIVE TrapzSum(_, _, _)
TrapzSum(y, x, i) ==
    IF i >= Len(x) THEN FromInt(0)
    ELSE Add(Fin(IF (x[i + 1] - x[i]) * (y[i + 1] + y[i]) < 0 THEN -1 ELSE 1,
                 Abs((x[i + 1] - x[i]) * (y[i + 1] + y[i])), 2),
             TrapzSum(y, x, i + 1))

\* np.trapz(y, x = x): sum of diff(x) * (y[1:] + y[:-1]) / 2.0 in index order
trapz(y, x) == TrapzSum(y, x, 1)

\* outcome of a call: the value returned, or the exception raised
Returned(v) == [raised |-> "none", value |-> v]

Raised(e) == [raised |-> e, value |-> <<>>]

(***************************************************************************)
(* Overlap family                                                          *)
(***************************************************************************)
\* single_denominator_overlap normalised by the sample's self-overlap instead
\* of the reference's
single_denominator_overlap_by_sample(dir_frequency_axis, dir_intensity_axis, sample_index, reference_index) ==
    LET sample_intensity    == dir_intensity_axis[sample_index]
        reference_frequency == dir_frequency_axis[reference_index]
        reference_intensity == dir_intensity_axis[reference_index]
        numerator   == trapz(ArrMul(reference_intensity, sample_intensity), reference_frequency)
        denominator == trapz(ArrMul(sample_intensity, sample_intensity), reference_frequency)
    IN  Returned(Div(numerator, denominator))

single_denominator_overlap(dir_frequency_axis, dir_intensity_axis, sample_index, reference_index) ==
    LET sample_intensity    == dir_intensity_axis[sample_index]
        reference_frequency == dir_frequency_axis[reference_index]
        reference_intensity == dir_intensity_axis[reference_index]
        numerator   == trapz(ArrMul(reference_intensity, sample_intensity), reference_frequency)
        denominator == trapz(ArrMul(reference_intensity, reference_intensity), reference_frequency)
    IN  Returned(Div(numerator, denominator))

\* double_denominator_overlap with the square root left out of the denominator
double_denominator_overlap_no_sqrt(dir_frequency_axis, dir_intensity_axis, sample_index, reference_index) ==
    LET sample_intensity    == dir_intensity_axis[sample_index]
        reference_frequency == dir_frequency_axis[reference_index]
        reference_intensity == dir_intensity_axis[reference_index]
        numerator   == trapz(ArrMul(reference_intensity, sample_intensity), reference_frequency)
        denominator == Mul(trapz(ArrMul(reference_intensity, reference_intensity), reference_frequency),
                           trapz(ArrMul(sample_intensity, sample_intensity), reference_frequency))
    IN  Returned(Div(numerator, denominator))

\* double_denominator_overlap with the square root closed after the first
\* factor of the denominator
double_denominator_overlap_sqrt_first(dir_frequency_axis, dir_intensity_axis, sample_index, reference_index) ==
    LET sample_intensity    == dir_intensity_axis[sample_index]
        reference_frequency == dir_frequency_axis[reference_index]
        reference_intensity == dir_intensity_axis[reference_index]
        numerator   == trapz(ArrMul(reference_intensity, sample_intensity), reference_frequency)
        denominator == Mul(np_sqrt(trapz(ArrMul(reference_intensity, reference_intensity), reference_frequency)),
                           trapz(ArrMul(sample_intensity, sample_intensity), reference_frequency))
    IN  Returned(Div(numerator, denominator))

double_denominator_overlap(dir_frequency_axis, dir_intensity_axis, sample_index, reference_index) ==
    LET sample_intensity    == dir_intensity_axis[sample_index]
        reference_frequency == dir_frequency_axis[reference_index]
        reference_intensity == dir_intensity_axis[reference_index]
        numerator   == trapz(ArrMul(reference_intensity, sample_intensity), reference_frequency)
        denominator == np_sqrt(Mul(trapz(ArrMul(reference_intensity, reference_intensity), reference_frequency),
                                   trapz(ArrMul(sample_intensity, sample_intensity), reference_frequency)))
    IN  Returned(Div(numerator, denominator))

integrated_difference(dir_frequency_axis, dir_intensity_axis, sample_index, reference_index) ==
    LET sample_intensity    == dir_intensity_axis[sample_index]
        reference_frequency == dir_frequency_axis[reference_index]
        reference_intensity == dir_intensity_axis[reference_index]
        numerator   == Sub(trapz(ArrMul(reference_intensity, reference_intensity), reference_frequency),
                           trapz(ArrMul(sample_intensity, sample_intensity), reference_frequency))
        denominator == trapz(ArrMul(reference_intensity, reference_intensity), reference_frequency)
    IN  Returned(Div(numerator, denominator))

\* arguments of an overlap call: one or two spectra of equal length n on one
\* shared frequency axis, and two valid positions in the collection
OverlapArgs(n, k, x, ys, p) ==
    [dir_frequency_axis |-> [i \in 1..k |-> x],
     dir_intensity_axis |-> ys,
     sample_index       |-> p[1],
     reference_index    |-> p[2]]

\* one spectrum compared with itself, or the second compared with the first
IndexPairs(k) == IF k = 1 THEN {<<1, 1>>} ELSE {<<2, 1>>}

(***************************************************************************)
(* Statistics                                                              *)
(***************************************************************************)
RECURSIVE SumInts(_, _)
SumInts(xs, i) == IF i > Len(xs) THEN 0 ELSE xs[i] + SumInts(xs, i + 1)

\* np.average(xs): nan (with a RuntimeWarning) for an empty list
np_average(xs) == Div(FromInt(SumInts(xs, 1)), FromInt(Len(xs)))

\* abs(x - y) for two results of np.sqrt: exact when both roots are
\* rational, when they are equal or when one is zero, else kept as the pair
AbsDiffRoots(x, y) ==
    IF x.cls # "surd" /\ y.cls # "surd" THEN FAbs(Sub(x, y))
    ELSE IF x = y THEN FromInt(0)
    ELSE IF IsZero(x) THEN FAbs(y)
    ELSE IF IsZero(y) THEN FAbs(x)
    ELSE [cls |-> "absdiff", minuend |-> x, subtrahend |-> y]

\* the loop of compute_statistics from index b on (b counts from 1); the
\* variances are local names, unbound (<<>>) until the first pass binds them
RECURSIVE VarianceLoop(_, _, _, _, _, _, _, _)
VarianceLoop(sample, reference, sample_mean, reference_mean, b, sample_variance_numerator, reference_variance_numerator, variances) ==
    IF b > Len(sample) THEN variances
    ELSE IF b > Len(reference) THEN <<"IndexError">>
    ELSE LET sd  == Sub(FromInt(sample[b]), sample_mean)
             svn == Add(sample_variance_numerator, Mul(sd, sd))
             rd  == Sub(FromInt(reference[b]), reference_mean)
             rvn == Add(reference_variance_numerator, Mul(rd, rd))
         IN  VarianceLoop(sample, reference, sample_mean, reference_mean, b + 1, svn, rvn,
                          <<Div(svn, FromInt(Len(sample))), Div(rvn, FromInt(Len(reference)))>>)

compute_statistics(dir_intensities, sample_index, reference_index) ==
    LET sample         == dir_intensities[sample_index]
        reference      == dir_intensities[reference_index]
        sample_mean    == np_average(sample)
        reference_mean == np_average(reference)
        variances      == VarianceLoop(sample, reference, sample_mean, reference_mean, 1,
                                       FromInt(0), FromInt(0), <<>>)
    IN  IF variances = <<"IndexError">> THEN Raised("IndexError")
        ELSE IF variances = <<>> THEN Raised("UnboundLocalError")
        ELSE LET sample_variance              == variances[1]
                 reference_variance           == variances[2]
                 sample_standard_deviation    == np_sqrt(sample_variance)
                 reference_standard_deviation == np_sqrt(reference_variance)
                 mean_diff                    == FAbs(Sub(reference_mean, sample_mean))
                 variance_diff                == FAbs(Sub(reference_variance, sample_variance))
                 standard_deviation_diff      == AbsDiffRoots(reference_standard_deviation,
                                                              sample_standard_deviation)
             IN  Returned(<<mean_diff, variance_diff, standard_deviation_diff>>)

\* arguments of a compute_statistics call: two intensity lists whose lengths
\* are drawn independently, and two different positions
StatisticsArgs(sample, reference, p) ==
    [dir_intensities |-> [i \in 1..2 |-> IF i = p[1] THEN sample ELSE reference],
     sample_index    |-> p[1],
     reference_index |-> p[2]]

(***************************************************************************)
(* Sign and ordering diagnostics                                           *)
(***************************************************************************)
\* a local name of a Python function: <<>> while unbound, <<v>> once assigned
Unbound == <<>>

\* the loop of wrong_signs from index a on (a counts from 1); sign is the
\* local the if/elif assigns, carried from one pass to the next
RECURSIVE WrongSignsLoop(_, _, _, _, _, _, _, _)
WrongSignsLoop(sample_frequency, sample_intensity, reference_frequency, reference_intensity, a, sign, delta_freq, sign_change) ==
    IF a > Len(reference_frequency) THEN Returned(<<delta_freq, sign_change>>)
    ELSE IF a > Len(sample_frequency) \/ a > Len(sample_intensity) \/ a > Len(reference_intensity)
         THEN Raised("IndexError")
    ELSE LET frequency_displacement == reference_frequency[a] - sample_frequency[a]
             intensity_sign == Div(FromInt(sample_intensity[a]), FromInt(reference_intensity[a]))
             sign_now == IF Gt0(intensity_sign) THEN <<1>>
                         ELSE IF Lt0(intensity_sign) THEN <<-1>>
                         ELSE sign
         IN  IF sign_now = Unbound THEN Raised("UnboundLocalError")
             ELSE WrongSignsLoop(sample_frequency, sample_intensity,
                                 reference_frequency, reference_intensity, a + 1, sign_now,
                                 Append(delta_freq, frequency_displacement),
                                 Append(sign_change, sign_now[1]))

\* wrong_signs with the sample and the reference taken from each other's
\* position
wrong_signs_swapped(dir_frequencies, dir_intensities, sample_index, reference_index) ==
    WrongSignsLoop(dir_frequencies[reference_index], dir_intensities[reference_index],
                   dir_frequencies[sample_index], dir_intensities[sample_index],
                   1, Unbound, <<>>, <<>>)

wrong_signs(dir_frequencies, dir_intensities, sample_index, reference_index) ==
    WrongSignsLoop(dir_frequencies[sample_index], dir_intensities[sample_index],
                   dir_frequencies[reference_index], dir_intensities[reference_index],
                   1, Unbound, <<>>, <<>>)

\* the loop of normal_mode_reordering from index a on (a counts from 1)
RECURSIVE ReorderingLoop(_, _, _, _, _, _, _)
ReorderingLoop(sample_frequency, sample_intensity, reference_frequency, reference_intensity, a, sign, slope_sign) ==
    IF a > Len(reference_frequency) THEN Returned(slope_sign)
    ELSE IF a = Len(reference_frequency)
         THEN ReorderingLoop(sample_frequency, sample_intensity,
                             reference_frequency, reference_intensity, a + 1, sign,
                             Append(slope_sign, 0))
    ELSE IF a + 1 > Len(reference_intensity) \/ a + 1 > Len(sample_frequency)
            \/ a + 1 > Len(sample_intensity)
         THEN Raised("IndexError")
    ELSE LET delta_reference_frequency == reference_frequency[a] - reference_frequency[a + 1]
             delta_reference_intensity == reference_intensity[a] - reference_intensity[a + 1]
             reference_derivative == Div(FromInt(delta_reference_intensity),
                                         FromInt(delta_reference_frequency))
             delta_sample_frequency == sample_frequency[a] - sample_frequency[a + 1]
             delta_sample_intensity == sample_intensity[a] - sample_intensity[a + 1]
             sample_derivative == Div(FromInt(delta_sample_intensity),
                                      FromInt(delta_sample_frequency))
             derivative_sign == Div(sample_derivative, reference_derivative)
             sign_now == IF Gt0(derivative_sign) THEN <<1>>
                         ELSE IF Lt0(derivative_sign) THEN <<-1>>
                         ELSE sign
         IN  IF sign_now = Unbound THEN Raised("UnboundLocalError")
             ELSE ReorderingLoop(sample_frequency, sample_intensity,
                                 reference_frequency, reference_intensity, a + 1, sign_now,
                                 Append(slope_sign, sign_now[1]))

normal_mode_reordering(dir_frequencies, dir_intensities, sample_index, reference_index) ==
    ReorderingLoop(dir_frequencies[sample_index], dir_intensities[sample_index],
                   dir_frequencies[reference_index], dir_intensities[reference_index],
                   1, Unbound, <<>>)

\* arguments of a sign-routine call: two spectra of equal length, each with
\* its own frequencies, the sample at position 2 and the reference at 1
SignArgs(reference_frequency, sample_frequency, ys) ==
    [dir_frequencies |-> <<reference_frequency, sample_frequency>>, dir_intensities |-> ys,
     sample_index |-> 2, reference_index |-> 1]

(***************************************************************************)
(* Averaging routine                                                       *)
(*                                                                         *)
(* dir_parameters[a][5] is handed to len(), int() and float(), so it is a  *)
(* Python string: the sequence of its characters, <<"0", "2">> for "02".   *)
(* Python positions 5 and 6 of dir_parameters[a] are positions 6 and 7 of  *)
(* the tuple here.                                                         *)
(***************************************************************************)

DigitChars == <<"0", "1", "2", "3", "4", "5", "6", "7", "8", "9">>

IsDigit(ch) == \E i \in 1..Len(DigitChars) : DigitChars[i] = ch

DigitValue(ch) == (CHOOSE i \in 1..Len(DigitChars) : DigitChars[i] = ch) - 1

\* the digits chars[i..], read as a decimal numeral with acc the value so far
RECURSIVE DecimalValue(_, _, _)
DecimalValue(chars, i, acc) ==
    IF i > Len(chars) THEN acc
    ELSE DecimalValue(chars, i + 1, 10 * acc + DigitValue(chars[i]))

\* the strings int() and float() both accept: an optional "-" and then one
\* or more decimal digits
IsNumeral(chars) ==
    LET first == IF Len(chars) > 0 /\ chars[1] = "-" THEN 2 ELSE 1
    IN  /\ first <= Len(chars)
        /\ \A i \in first..Len(chars) : IsDigit(chars[i])

NumeralValue(chars) ==
    IF chars[1] = "-" THEN -DecimalValue(chars, 2, 0) ELSE DecimalValue(chars, 1, 0)

\* int(chars) and float(chars) of a numeral; both raise ValueError otherwise
py_int(chars) == NumeralValue(chars)

py_float(chars) == FromInt(NumeralValue(chars))

\* outcome of a loop nest: the accumulators, or the exception that ended it
Going(averages) == [raised |-> "none", averages |-> averages]

Stopped(e) == [raised |-> e, averages |-> <<>>]

\* the for loop over the channels c (counting from 1) of block b
RECURSIVE ChannelLoop(_, _, _, _, _, _, _, _)
ChannelLoop(intensities, repeat, block_size, molecule_MM, d, b, c, averages) ==
    IF c > block_size THEN Going(averages)
    ELSE IF (d * b) + (c - 1) >= Len(intensities) THEN Stopped("IndexError")
    ELSE LET x == FromInt(intensities[(d * b) + (c - 1) + 1])
             term == IF molecule_MM # 0
                     THEN Div(x, Mul(py_float(repeat), FromInt(molecule_MM)))
                     ELSE Div(x, py_float(repeat))
         IN  ChannelLoop(intensities, repeat, block_size, molecule_MM, d, b, c + 1,
                         [averages EXCEPT ![c] = Add(averages[c], term)])

\* the while loop over the blocks b (counting from 0)
RECURSIVE BlockLoop(_, _, _, _, _, _, _)
BlockLoop(intensities, repeat, block_size, molecule_MM, d, b, averages) ==
    IF ~(b < py_int(repeat)) THEN Going(averages)
    ELSE LET inner == ChannelLoop(intensities, repeat, block_size, molecule_MM, d, b, 1, averages)
         IN  IF inner.raised # "none" THEN inner
             ELSE BlockLoop(intensities, repeat, block_size, molecule_MM, d, b + 1,
                            inner.averages)

\* the for loop over the molecules a (counting from 1)
RECURSIVE MoleculeLoop(_, _, _, _, _, _)
MoleculeLoop(dir_intensities, dir_parameters, dir_list, molecule_MM, a, opt_rot_averages) ==
    IF a > Len(dir_list) THEN Returned(opt_rot_averages)
    ELSE IF a > Len(dir_parameters) THEN Raised("IndexError")
    ELSE LET repeat     == dir_parameters[a][6]
             block_size == Len(dir_parameters[a][7])
             averages   == [c \in 1..block_size |-> FromInt(0)]
         IN  IF ~IsNumeral(repeat) THEN Raised("ValueError")
             ELSE IF py_int(repeat) > 0 /\ block_size > 0 /\ a > Len(dir_intensities)
                  THEN Raised("IndexError")
             ELSE LET blocks == BlockLoop(dir_intensities[a], repeat, block_size, molecule_MM,
                                          Len(repeat), 0, averages)
                  IN  IF blocks.raised # "none" THEN Raised(blocks.raised)
                      ELSE MoleculeLoop(dir_intensities, dir_parameters, dir_list, molecule_MM,
                                        a + 1, opt_rot_averages \o blocks.averages)

opt_rot_averaging(dir_intensities, dir_parameters, dir_list, molecule_MM) ==
    MoleculeLoop(dir_intensities, dir_parameters, dir_list, molecule_MM, 1, <<>>)

\* most molecules in dir_list
MaxMolecules == 2

\* most channels in one block
MaxChannels == 2

\* most entries of one dir_intensities[a]
MaxSamples == 4

\* values handed in as dir_parameters[a][5]
RepeatParams ==
    {<<"0">>, <<"1">>, <<"2">>, <<"3">>, <<"0", "2">>, <<"-", "1">>, <<"-">>}

\* values handed in as molecule_MM
MolarMasses == {0, 2}

\* dir_intensities[a] = [1, 2, ..., n]: every entry tells its position
Ramp(n) == [i \in 1..n |-> i]

\* the parameter list of one molecule; only positions 5 and 6 are read
ParameterList(repeat, block_size) ==
    <<"", "", "", "", "", repeat, [c \in 1..block_size |-> ""]>>

AveragingArgs(lens, repeats, sizes, mm) ==
    [dir_intensities |-> [a \in DOMAIN lens |-> Ramp(lens[a])],
     dir_parameters  |-> [a \in DOMAIN lens |-> ParameterList(repeats[a], sizes[a])],
     dir_list        |-> [a \in DOMAIN lens |-> "molecule"],
     molecule_MM     |-> mm]

(***************************************************************************)
(* The state machine: a caller that invokes one routine at a time.         *)
(***************************************************************************)
NoArgs == [none |-> TRUE]

Init ==
    /\ call = "none"
    /\ args = NoArgs
    /\ result = Returned(<<>>)

CallSingleDenominatorOverlap ==
    /\ call = "none"
    /\ \E n \in 1..MaxLen, k \in 1..2 :
         \E x \in Axes(n), ys \in [1..k -> Intensities(n)], p \in IndexPairs(k) :
            LET a == OverlapArgs(n, k, x, ys, p)
            IN  /\ args' = a
                /\ result' = single_denominator_overlap(a.dir_frequency_axis, a.dir_intensity_axis,
                                a.sample_index, a.reference_index)
    /\ call' = "single_denominator_overlap"

CallDoubleDenominatorOverlap ==
    /\ call = "none"
    /\ \E n \in 1..MaxLen, k \in 1..2 :
         \E x \in Axes(n), ys \in [1..k -> Intensities(n)], p \in IndexPairs(k) :
            LET a == OverlapArgs(n, k, x, ys, p)
            IN  /\ args' = a
                /\ result' = double_denominator_overlap(a.dir_frequency_axis, a.dir_intensity_axis,
                                a.sample_index, a.reference_index)
    /\ call' = "double_denominator_overlap"

CallIntegratedDifference ==
    /\ call = "none"
    /\ \E n \in 1..MaxLen, k \in 1..2 :
         \E x \in Axes(n), ys \in [1..k -> Intensities(n)], p \in IndexPairs(k) :
            LET a == OverlapArgs(n, k, x, ys, p)
            IN  /\ args' = a
                /\ result' = integrated_difference(a.dir_frequency_axis, a.dir_intensity_axis,
                                a.sample_index, a.reference_index)
    /\ call' = "integrated_difference"

CallComputeStatistics ==
    /\ call = "none"
    /\ \E n \in 0..MaxLen, m \in 0..MaxLen :
         \E sample \in Intensities(n), reference \in Intensities(m), p \in {<<1, 2>>, <<2, 1>>} :
            LET a == StatisticsArgs(sample, reference, p)
            IN  /\ args' = a
                /\ result' = compute_statistics(a.dir_intensities, a.sample_index, a.reference_index)
    /\ call' = "compute_statistics"

CallWrongSigns ==
    /\ call = "none"
    /\ \E n \in 0..MaxLen :
         \E rf \in SortedAxes(n), sf \in Axes(n), ys \in [1..2 -> Intensities(n)] :
            LET a == SignArgs(rf, sf, ys)
            IN  /\ args' = a
                /\ result' = wrong_signs(a.dir_frequencies, a.dir_intensities,
                                a.sample_index, a.reference_index)
    /\ call' = "wrong_signs"

CallNormalModeReordering ==
    /\ call = "none"
    /\ \E n \in 0..MaxLen :
         \E rf \in SortedAxes(n), sf \in Axes(n), ys \in [1..2 -> Intensities(n)] :
            LET a == SignArgs(rf, sf, ys)
            IN  /\ args' = a
                /\ result' = normal_mode_reordering(a.dir_frequencies, a.dir_intensities,
                                a.sample_index, a.reference_index)
    /\ call' = "normal_mode_reordering"

CallOptRotAveraging ==
    /\ call = "none"
    /\ \E m \in 1..MaxMolecules, mm \in MolarMasses :
         \E lens \in [1..m -> 0..MaxSamples], repeats \in [1..m -> RepeatParams],
            sizes \in [1..m -> 1..MaxChannels] :
            LET a == AveragingArgs(lens, repeats, sizes, mm)
            IN  /\ args' = a
                /\ result' = opt_rot_averaging(a.dir_intensities, a.dir_parameters,
                                               a.dir_list, a.molecule_MM)
    /\ call' = "opt_rot_averaging"

\* the caller takes the outcome; the routines keep no state between calls
Return ==
    /\ call # "none"
    /\ call' = "none"
    /\ args' = NoArgs
    /\ result' = Returned(<<>>)

NextOverlap ==
    \/ CallSingleDenominatorOverlap
    \/ CallDoubleDenominatorOverlap
    \/ CallIntegratedDifference
    \/ Return

SpecOverlap == Init /\ [][NextOverlap]_vars

NextStatistics ==
    \/ CallComputeStatistics
    \/ Return

SpecStatistics == Init /\ [][NextStatistics]_vars

NextWrongSigns ==
    \/ CallWrongSigns
    \/ Return

SpecWrongSigns == Init /\ [][NextWrongSigns]_vars

NextSigns ==
    \/ CallWrongSigns
    \/ CallNormalModeReordering
    \/ Return

SpecSigns == Init /\ [][NextSigns]_vars

NextAveraging ==
    \/ CallOptRotAveraging
    \/ Return

SpecAveraging == Init /\ [][NextAveraging]_vars

Next ==
    \/ CallSingleDenominatorOverlap
    \/ CallDoubleDenominatorOverlap
    \/ CallIntegratedDifference
    \/ CallComputeStatistics
    \/ CallWrongSigns
    \/ CallNormalModeReordering
    \/ CallOptRotAveraging
    \/ Return

Spec == Init /\ [][Next]_vars

(***************************************************************************)
(* Claims about the overlap family                                         *)
(***************************************************************************)
OverlapCalls == {"single_denominator_overlap", "double_denominator_overlap",
                 "integrated_difference"}

\* trapezoidal self-overlap of the reference and of the sample of the call
\* in progress, both over the reference frequency axis
ReferenceSelfOverlap ==
    trapz(ArrMul(args.dir_intensity_axis[args.reference_index],
                 args.dir_intensity_axis[args.reference_index]),
          args.dir_frequency_axis[args.reference_index])

SampleSelfOverlap ==
    trapz(ArrMul(args.dir_intensity_axis[args.sample_index],
                 args.dir_intensity_axis[args.sample_index]),
          args.dir_frequency_axis[args.reference_index])

CrossOverlap ==
    trapz(ArrMul(args.dir_intensity_axis[args.reference_index],
                 args.dir_intensity_axis[args.sample_index]),
          args.dir_frequency_axis[args.reference_index])

IdenticalSpectra ==
    args.dir_intensity_axis[args.sample_index] = args.dir_intensity_axis[args.reference_index]

\* the reference frequency axis never decreases, or never increases
MonotonicAxis ==
    LET x == args.dir_frequency_axis[args.reference_index]
    IN  \/ \A i \in 1..(Len(x) - 1) : x[i] <= x[i + 1]
        \/ \A i \in 1..(Len(x) - 1) : x[i] >= x[i + 1]

\* the intensity collection with every intensity of spectrum r doubled
DoubledReference(dir_intensity_axis, r) ==
    [dir_intensity_axis EXCEPT ![r] = [i \in 1..Len(dir_intensity_axis[r]) |-> 2 * dir_intensity_axis[r][i]]]

\* C4 as stated: double_denominator_overlap returns exactly 1 whenever the
\* sample and the reference spectrum are identical, for every such input.
C4_IdenticalGivesOne ==
    (call = "double_denominator_overlap" /\ IdenticalSpectra)
        => result = Returned(FromInt(1))

\* C4 amended: for identical sample and reference, double_denominator_overlap
\* returns exactly 1 when the trapezoidal self-overlap is positive and exactly
\* -1 when it is negative (a decreasing axis).
C4_IdenticalGivesSignOfSelfOverlap ==
    (call = "double_denominator_overlap" /\ IdenticalSpectra)
        => /\ Gt0(ReferenceSelfOverlap) => result = Returned(FromInt(1))
           /\ Lt0(ReferenceSelfOverlap) => result = Returned(FromInt(-1))

\* C4 witness: two identical spectra held at different positions, with a
\* positive self-overlap that is not 1, scored 1.
C4_Witness ==
    /\ call = "double_denominator_overlap"
    /\ args.sample_index # args.reference_index
    /\ IdenticalSpectra
    /\ Gt0(ReferenceSelfOverlap)
    /\ ReferenceSelfOverlap # FromInt(1)
    /\ result = Returned(FromInt(1))

\* C5: with a non-zero reference self-overlap and the sample held at another
\* position, doubling every reference intensity halves
\* single_denominator_overlap and leaves double_denominator_overlap unchanged.
C5_ReferenceRescaling ==
    (call \in {"single_denominator_overlap", "double_denominator_overlap"}
        /\ args.sample_index # args.reference_index
        /\ ~IsZero(ReferenceSelfOverlap))
    => LET doubled == DoubledReference(args.dir_intensity_axis, args.reference_index)
       IN  /\ call = "single_denominator_overlap" =>
                single_denominator_overlap(args.dir_frequency_axis, doubled,
                                           args.sample_index, args.reference_index)
                  = Returned(Div(result.value, FromInt(2)))
           /\ call = "double_denominator_overlap" =>
                double_denominator_overlap(args.dir_frequency_axis, doubled,
                                           args.sample_index, args.reference_index)
                  = result

\* C5 witness: a single_denominator_overlap call with a non-zero score on a
\* non-zero reference self-overlap, whose score the doubling changes.
C5_Witness ==
    /\ call = "single_denominator_overlap"
    /\ args.sample_index # args.reference_index
    /\ ~IsZero(ReferenceSelfOverlap)
    /\ result.raised = "none"
    /\ ~IdenticalSpectra
    /\ IsFinite(result.value) /\ ~IsZero(result.value)
    /\ single_denominator_overlap(args.dir_frequency_axis,
                                  DoubledReference(args.dir_intensity_axis, args.reference_index),
                                  args.sample_index, args.reference_index) # result

ZeroDenominator ==
    IF call = "double_denominator_overlap"
    THEN IsZero(np_sqrt(Mul(ReferenceSelfOverlap, SampleSelfOverlap)))
    ELSE IsZero(ReferenceSelfOverlap)

\* C10 as stated: a zero denominator in any of the three overlap routines is
\* surfaced to the caller as an error; no value is returned.
C10_ZeroDenominatorRaises ==
    (call \in OverlapCalls /\ ZeroDenominator) => result.raised # "none"

(***************************************************************************)
(* Claims about compute_statistics                                         *)
(***************************************************************************)
\* C9 as stated: compute_statistics raises instead of returning a triple
\* whenever the two intensity sequences differ in length, whichever is longer.
C9_LengthMismatchRaises ==
    (call = "compute_statistics"
        /\ Len(args.dir_intensities[args.sample_index])
             # Len(args.dir_intensities[args.reference_index]))
    => result.raised # "none"

(***************************************************************************)
(* Claims about the sign and ordering diagnostics                          *)
(***************************************************************************)
SignCalls == {"wrong_signs", "normal_mode_reordering"}

SampleFrequency == args.dir_frequencies[args.sample_index]

SampleIntensity == args.dir_intensities[args.sample_index]

ReferenceFrequency == args.dir_frequencies[args.reference_index]

ReferenceIntensity == args.dir_intensities[args.reference_index]

\* C2: for equal-length spectra whose intensities are all non-zero,
\* wrong_signs returns two sequences of the reference length; entry a of the
\* first is reference_freq[a] - sample_freq[a], entry a of the second is +1
\* when the two intensities at a have the same sign and -1 when they differ.
C2_WrongSignsPositional ==
    (call = "wrong_signs"
        /\ \A a \in 1..Len(ReferenceIntensity) :
              SampleIntensity[a] # 0 /\ ReferenceIntensity[a] # 0)
    => /\ result.raised = "none"
       /\ Len(result.value[1]) = Len(ReferenceFrequency)
       /\ Len(result.value[2]) = Len(ReferenceFrequency)
       /\ \A a \in 1..Len(ReferenceFrequency) :
            /\ result.value[1][a] = ReferenceFrequency[a] - SampleFrequency[a]
            /\ result.value[2][a] =
                 IF (SampleIntensity[a] > 0) = (ReferenceIntensity[a] > 0) THEN 1 ELSE -1

\* C2 witness: three modes, the middle one with opposite signs and a shifted
\* frequency, reported as signs [1, -1, 1].
C2_Witness ==
    /\ call = "wrong_signs"
    /\ Len(ReferenceIntensity) = 3
    /\ \A a \in 1..3 : SampleIntensity[a] # 0 /\ ReferenceIntensity[a] # 0
    /\ ReferenceFrequency[2] # SampleFrequency[2]
    /\ result.raised = "none"
    /\ result.value[2] = <<1, -1, 1>>

\* the slope ratio normal_mode_reordering takes the sign of at index a
SlopeRatio(a) ==
    Div(Div(FromInt(SampleIntensity[a] - SampleIntensity[a + 1]),
            FromInt(SampleFrequency[a] - SampleFrequency[a + 1])),
        Div(FromInt(ReferenceIntensity[a] - ReferenceIntensity[a + 1]),
            FromInt(ReferenceFrequency[a] - ReferenceFrequency[a + 1])))

\* C3 as stated: for equal-length spectra of length n >= 1 the output of
\* normal_mode_reordering has n entries, the last is 0, and every earlier
\* entry is +1 or -1 and is the sign of the slope ratio at its index.
C3_SlopeSigns ==
    (call = "normal_mode_reordering" /\ Len(ReferenceFrequency) >= 1)
    => /\ result.raised = "none"
       /\ Len(result.value) = Len(ReferenceFrequency)
       /\ result.value[Len(ReferenceFrequency)] = 0
       /\ \A a \in 1..(Len(ReferenceFrequency) - 1) :
            /\ result.value[a] \in {1, -1}
            /\ (result.value[a] = 1) <=> Gt0(SlopeRatio(a))
            /\ (result.value[a] = -1) <=> Lt0(SlopeRatio(a))

\* the indices whose ratio has a zero numerator: a zero sample intensity in
\* wrong_signs, a zero sample intensity step in normal_mode_reordering
ZeroRatioIndices ==
    IF call = "wrong_signs"
    THEN {a \in 1..Len(ReferenceFrequency) : SampleIntensity[a] = 0}
    ELSE {a \in 1..(Len(ReferenceFrequency) - 1) : SampleIntensity[a] = SampleIntensity[a + 1]}

\* the intensity collection with every sample intensity negated: every
\* non-zero ratio changes sign, every zero ratio stays zero
NegatedSample ==
    [args.dir_intensities EXCEPT ![args.sample_index] =
        [a \in 1..Len(SampleIntensity) |-> -SampleIntensity[a]]]

\* the signs a returned outcome of the call in progress holds
SignsOf(outcome) == IF call = "wrong_signs" THEN outcome.value[2] ELSE outcome.value

\* the same routine run on the negated sample
RerunNegated ==
    IF call = "wrong_signs"
    THEN wrong_signs(args.dir_frequencies, NegatedSample, args.sample_index, args.reference_index)
    ELSE normal_mode_reordering(args.dir_frequencies, NegatedSample,
                                args.sample_index, args.reference_index)

\* C7 as stated: at an index whose ratio is zero the sign routines never read
\* the unassigned local and never emit the sign of an earlier index; what
\* they emit there depends on that index alone, so it is the same when every
\* other ratio changes sign.
C7_ZeroRatioPolicy ==
    (call \in SignCalls /\ ZeroRatioIndices # {})
    => /\ result.raised # "UnboundLocalError"
       /\ (result.raised = "none" /\ RerunNegated.raised = "none")
            => \A a \in ZeroRatioIndices : SignsOf(RerunNegated)[a] = SignsOf(result)[a]

(***************************************************************************)
(* Claims about opt_rot_averaging                                          *)
(***************************************************************************)
Molecules == 1..Len(args.dir_list)

RepeatCount(a) == py_int(args.dir_parameters[a][6])

BlockSize(a) == Len(args.dir_parameters[a][7])

\* sum over the blocks b = from..repeat_count-1 of intensities[a][b*block_size + c]
\* (c counting from 1)
RECURSIVE ChannelSum(_, _, _)
ChannelSum(a, c, from) ==
    IF from >= RepeatCount(a) THEN 0
    ELSE args.dir_intensities[a][from * BlockSize(a) + c] + ChannelSum(a, c, from + 1)

\* the averaged channels of molecule a as section 4.4 of the specification
\* defines them
BlockAverages(a) ==
    [c \in 1..BlockSize(a) |->
        IF args.molecule_MM # 0
        THEN Div(Div(FromInt(ChannelSum(a, c, 0)), FromInt(RepeatCount(a))),
                 FromInt(args.molecule_MM))
        ELSE Div(FromInt(ChannelSum(a, c, 0)), FromInt(RepeatCount(a)))]

RECURSIVE ConcatAverages(_)
ConcatAverages(a) ==
    IF a > Len(args.dir_list) THEN <<>> ELSE BlockAverages(a) \o ConcatAverages(a + 1)

\* C1 as stated: when every molecule has a positive integer repeat count and
\* at least repeat_count*block_size intensities, channel c of its average is
\* the sum over the blocks b of intensities[a][b*block_size + c], divided by
\* repeat_count and by a non-zero molar mass.
C1_BlockAverages ==
    (call = "opt_rot_averaging"
        /\ \A a \in Molecules :
              /\ IsNumeral(args.dir_parameters[a][6])
              /\ RepeatCount(a) > 0
              /\ Len(args.dir_intensities[a]) >= RepeatCount(a) * BlockSize(a))
    => result = Returned(ConcatAverages(1))

\* C8 as stated: opt_rot_averaging raises, and returns no averages, whenever
\* a molecule has a zero or negative repeat count or fewer than
\* repeat_count*block_size intensities.
C8_InsufficientDataRaises ==
    (call = "opt_rot_averaging"
        /\ \E a \in Molecules :
              /\ IsNumeral(args.dir_parameters[a][6])
              /\ \/ RepeatCount(a) <= 0
                 \/ Len(args.dir_intensities[a]) < RepeatCount(a) * BlockSize(a))
    => result.raised # "none"

====
